---- MODULE Spec2Model ----
(***************************************************************************)
(* ConnectionRegistry (src/core/ConnectionRegistry.js): the tenant ->      *)
(* connection map, the request-id -> queue map, the reconnect grace timers *)
(* and the lightweight-reconnect callback, as a state machine.  Every      *)
(* handler of the registry is one action (Node runs handlers one at a      *)
(* time); the only suspension point is the await of the recovery race.     *)
(***************************************************************************)
EXTENDS Integers, Sequences, FiniteSets, TLC

\* ---- bounds of the model ----
NumTenants == 2     \* tenant ids 0 .. NumTenants - 1
\* the connection-lifecycle specification Spec
MaxTenants == 1     \* tenants that connect in one behaviour
MaxWs == 3          \* sockets accepted in one behaviour
MaxTimers == 3      \* grace timers started in one behaviour
MaxQueues == 1      \* message queues created in one behaviour
MaxFrames == 0      \* events held by all queues together
MaxListeners == 1   \* registrations of one socket instance
\* the grace-expiry specification SpecExpiry
ExpTenants == 2
ExpWs == 2
ExpTimers == 2
ExpQueues == 2
ExpFrames == 1
ExpListeners == 1
\* the registration-only specification SpecAdds
AddsTenants == 2
AddsWs == 3
AddsListeners == 2
\* the fair specification SpecFair
FairWs == 2
FairTimers == 2
\* the routing specification SpecRoute
RouteTenants == 1
RouteWs == 1
RouteTimers == 1
RouteQueues == 2
RouteFrames == 3
RouteListeners == 2
RouteSeqLen == 2    \* frames of one request routed in a row
MaxChunks == 2      \* chunk frames of one stream
CloseSeqLen == 3    \* queue-closing calls made in a row
\* the browser specification SpecBrowser
NumAccounts == 2    \* accounts the auth source knows
MaxLaunches == 3    \* calls of launchOrSwitchContext

\* ---- values ----
Tenants == 0 .. (NumTenants - 1)
None == 0
NoCurrent == -1
Rids == {"r1", "r2"}
EventTypes == {"response_headers", "chunk", "error", "stream_close", "ping"}
STREAM_END == [type |-> "STREAM_END"]

\* authIndex values a client may present: undefined, a negative number,
\* a non-integer number, or a tenant id
Undefined == [def |-> FALSE, int |-> FALSE, val |-> 0]
Num(n) == [def |-> TRUE, int |-> TRUE, val |-> n]
Frac(n) == [def |-> TRUE, int |-> FALSE, val |-> n]
AuthInputs == {Undefined, Num(-1), Frac(1)} \cup {Num(t) : t \in Tenants}

\* arguments of websocket.close(...) as the registry calls it
NotClosed == [called |-> FALSE, code |-> 0, reason |-> ""]
CloseReplaced == [called |-> TRUE, code |-> 1000, reason |-> "Replaced by new connection"]
CloseInvalid == [called |-> TRUE, code |-> 1008, reason |-> "Invalid authIndex"]
CloseNoArgs == [called |-> TRUE, code |-> 0, reason |-> ""]

VARIABLES
    lim,                    \* the bounds of the behaviour
    cfg,                    \* constructor arguments
    connectionsByAuth,      \* tenant -> socket id or None
    messageQueues,          \* request id -> queue id or None
    reconnectGraceTimers,   \* tenant -> timer id or None
    reconnectingAccounts,   \* tenant -> flag
    sockets,                \* socket id -> [state, auth, listeners, closeCall]
    timers,                 \* timer id -> grace timer and its callback's progress
    queues,                 \* queue id -> [open, items, closeCalls]
    manager,                \* the fields of the BrowserManager
    launch                  \* the running launchOrSwitchContext and its browser

vars == <<lim, cfg, connectionsByAuth, messageQueues,
          reconnectGraceTimers, reconnectingAccounts, sockets, timers, queues,
          manager, launch>>

\* the mutable state of the registry and of the objects it holds, as one record;
\* threw and emitted are what the running handler has raised and emitted so far
Reg == [conn |-> connectionsByAuth, mq |-> messageQueues, grace |-> reconnectGraceTimers,
        rec |-> reconnectingAccounts, ws |-> sockets, tm |-> timers, qs |-> queues,
        threw |-> FALSE, emitted |-> <<>>]

Commit(R) ==
    /\ connectionsByAuth' = R.conn
    /\ messageQueues' = R.mq
    /\ reconnectGraceTimers' = R.grace
    /\ reconnectingAccounts' = R.rec
    /\ sockets' = R.ws
    /\ timers' = R.tm
    /\ queues' = R.qs

\* ---- collaborators ----

\* this.getCurrentAuthIndex ? this.getCurrentAuthIndex() : -1, where ext is
\* what the accessor answers at the moment of the call
getCurrentAuthIndex(ext) == IF cfg.getCurrent THEN ext ELSE NoCurrent

\* the answers the accessor can give
CurrentAnswers == IF cfg.getCurrent THEN Tenants \cup {NoCurrent} ELSE {NoCurrent}

\* browserManager.contexts.get(t): the answers of "the page is there and open"
LiveAnswers == IF cfg.bm = "contexts" THEN BOOLEAN ELSE {TRUE}

\* BrowserManager with the browser launched for account t: the fields of the
\* constructor (lines 18-37) as launchOrSwitchContext leaves them
Launched(t) ==
    [browser |-> TRUE, context |-> TRUE, page |-> TRUE, currentAuthIndex |-> t,
     isClosingIntentionally |-> FALSE]

\* BrowserManager.closeBrowser up to the await of browser.close()
closeBrowserBegin(b) == [b EXCEPT !.isClosingIntentionally = TRUE]

\* BrowserManager.closeBrowser after the await: the references and the flag are reset
closeBrowserEnd(b) ==
    IF b.browser
    THEN [b EXCEPT !.browser = FALSE, !.context = FALSE, !.page = FALSE,
                   !.currentAuthIndex = NoCurrent, !.isClosingIntentionally = FALSE]
    ELSE [b EXCEPT !.isClosingIntentionally = FALSE]

\* the states of the manager in which the registry can handle the disconnect
\* that closeBrowser causes: while browser.close() is awaited, or after it
DuringClose(t) ==
    {closeBrowserBegin(Launched(t)), closeBrowserEnd(closeBrowserBegin(Launched(t)))}

\* the accounts of the auth source; any other index is invalid
Accounts == 0 .. (NumAccounts - 1)

\* BrowserManager as its constructor leaves it (lines 18-37)
Constructed ==
    [browser |-> FALSE, context |-> FALSE, page |-> FALSE, currentAuthIndex |-> NoCurrent,
     isClosingIntentionally |-> FALSE]

\* no launchOrSwitchContext is running: pc is the await the call is at,
\* result how the last call ended, alive whether a launched browser process
\* with its "disconnected" handler is running, inited the accounts whose
\* context has completed its initialization, calls the calls made so far
NotLaunching ==
    [pc |-> "idle", authIndex |-> NoCurrent, attempt |-> 0, hasCache |-> FALSE,
     result |-> "none", alive |-> FALSE, inited |-> {}, calls |-> 0]

\* the manager and the running call as one record
Mgr == [m |-> manager, l |-> launch]

\* launchOrSwitchContext up to its first await: the index check of lines
\* 1632-1636 and the closing of the running browser of lines 1653-1656
launchOrSwitchContext(S, authIndex, hasCache) ==
    LET l0 == [S.l EXCEPT !.authIndex = authIndex, !.attempt = 1, !.hasCache = hasCache,
                          !.result = "none", !.calls = @ + 1]
    IN IF authIndex \notin Accounts
       THEN [m |-> [S.m EXCEPT !.currentAuthIndex = NoCurrent],
             l |-> [l0 EXCEPT !.result = "threw"]]
       ELSE IF S.m.browser \/ S.m.context
            THEN [m |-> closeBrowserBegin(S.m), l |-> [l0 EXCEPT !.pc = "closeOld"]]
            ELSE [m |-> S.m, l |-> [l0 EXCEPT !.pc = "getAuth"]]

\* closeBrowser of line 1655 returns
closeOldDone(S) ==
    [m |-> closeBrowserEnd(S.m), l |-> [S.l EXCEPT !.pc = "getAuth", !.alive = FALSE]]

\* lines 1658-1661: the auth source answers, or the call throws
getAuth(S, found) ==
    IF found
    THEN [S EXCEPT !.l.pc = "launch"]
    ELSE [S EXCEPT !.l.pc = "idle", !.l.result = "threw"]

\* _launchPersistentContextForAccount: the executable is missing (lines
\* 1519-1522), the launch throws, or the context, browser and page are stored
\* and the "disconnected" handler is attached (lines 1541-1628)
launchPersistentContextForAccount(S, how) ==
    CASE how = "noexec" ->
           [S EXCEPT !.m.currentAuthIndex = NoCurrent, !.l.pc = "failed"]
      [] how = "throws" ->
           [S EXCEPT !.l.pc = "failed"]
      [] OTHER ->
           [S EXCEPT !.m.browser = TRUE, !.m.context = TRUE, !.m.page = TRUE,
                     !.l.alive = TRUE, !.l.pc = "init"]

\* attemptInit from addInitScript to the click of the Preview button (lines
\* 1689-1735 and 557-632): every step awaits an operation of this.page and
\* throws when it fails or when the page is gone
initContext(S, ok) ==
    IF ok /\ S.m.page
    THEN [S EXCEPT !.l.pc = "trigger", !.l.inited = @ \cup {S.l.authIndex}]
    ELSE [S EXCEPT !.l.pc = "failed"]

\* the end of _injectScriptToEditor and lines 1738-1740: the active trigger
\* is awaited inside a try whose catch is empty, so it neither throws when it
\* is rejected nor when this.page is null; then the index is stored
activeTrigger(S) ==
    [S EXCEPT !.m.currentAuthIndex = S.l.authIndex, !.l.pc = "save"]

\* line 1743: _updateAuthFile returns, or throws out of _persistContextCache
updateAuthFile(S, ok) ==
    IF ok
    THEN [S EXCEPT !.l.pc = "idle", !.l.result = "returned"]
    ELSE [S EXCEPT !.l.pc = "failed"]

\* the catch of lines 1754-1777 up to the await of closeBrowser
initFailed(S) ==
    [m |-> closeBrowserBegin(S.m), l |-> [S.l EXCEPT !.pc = "closeFailed"]]

\* closeBrowser of the catch returns: the second attempt without the cache
\* (lines 1758-1761), or the reset of the index and the throw (lines
\* 1766-1769 and 1774-1777)
closeFailedDone(S) ==
    LET m1 == closeBrowserEnd(S.m) IN
    IF S.l.hasCache /\ S.l.attempt = 1
    THEN [m |-> m1, l |-> [S.l EXCEPT !.pc = "launch", !.attempt = 2, !.alive = FALSE]]
    ELSE [m |-> [m1 EXCEPT !.currentAuthIndex = NoCurrent],
          l |-> [S.l EXCEPT !.pc = "idle", !.result = "threw", !.alive = FALSE]]

\* the "disconnected" handler of lines 1615-1628
onDisconnected(S) ==
    [m |-> [S.m EXCEPT !.browser = FALSE, !.context = FALSE, !.page = FALSE,
                       !.currentAuthIndex = NoCurrent],
     l |-> [S.l EXCEPT !.alive = FALSE]]

\* websocket.close(code, reason): starts the closing handshake of an open socket
wsClose(R, w, call) ==
    IF R.ws[w].state = "open"
    THEN [R EXCEPT !.ws[w].state = "closing", !.ws[w].closeCall = call]
    ELSE R

\* existingConnection.removeAllListeners()
removeAllListeners(R, w) == [R EXCEPT !.ws[w].listeners = 0]

\* clearTimeout(id): a timer that has not fired never will
clearTimeout(R, id) ==
    IF R.tm[id].status = "pending"
    THEN [R EXCEPT !.tm[id].status = "cancelled"]
    ELSE R

\* new MessageQueue()
NewQueue == [open |-> TRUE, items |-> <<>>, closeCalls |-> 0]

\* MessageQueue.close(): what the queue held can no longer be dequeued;
\* closeCalls counts the calls the registry has made on the queue
queueClose(q) == [q EXCEPT !.open = FALSE, !.items = <<>>, !.closeCalls = @ + 1]

\* MessageQueue.enqueue(message)
queueEnqueue(q, m) == IF q.open THEN [q EXCEPT !.items = Append(@, m)] ELSE q

\* MessageQueue.dequeue(): the next event; with nothing held, the closed signal
\* of a closed queue, and a wait on an open one
queueDequeue(q) ==
    IF q.items # <<>>
    THEN [queue |-> [q EXCEPT !.items = Tail(@)],
          got |-> [kind |-> "event", event |-> Head(q.items)]]
    ELSE [queue |-> q, got |-> [kind |-> IF q.open THEN "blocks" ELSE "closed"]]

\* ---- ConnectionRegistry ----

\* this.emit(event)
emit(R, event) == [R EXCEPT !.emitted = Append(@, event)]

Tracked(R) == {R.mq[r] : r \in {x \in Rids : R.mq[x] # None}}

\* a close() that throws: the call was made and the queue is as it was
queueCloseThrows(q) == [q EXCEPT !.closeCalls = @ + 1]

\* messageQueues.forEach(queue => { try { queue.close() } catch (e) {} }), where
\* failing are the queues whose close() throws
RECURSIVE CloseEach(_, _, _)
CloseEach(qs, ids, failing) ==
    IF qs = <<>> THEN <<>>
    ELSE LET n == Len(qs)
             q == IF n \in ids
                  THEN IF n \in failing THEN queueCloseThrows(qs[n]) ELSE queueClose(qs[n])
                  ELSE qs[n]
         IN Append(CloseEach(SubSeq(qs, 1, n - 1), ids, failing), q)

\* faulty variant: no try/catch in the loop; the first close() that throws ends
\* the forEach, and clear() is not reached
closeAllMessageQueuesWith_NoCatch(R, failing) ==
    IF Tracked(R) # {}
    THEN IF failing \cap Tracked(R) = {}
         THEN [R EXCEPT !.qs = CloseEach(R.qs, Tracked(R), {}),
                        !.mq = [r \in Rids |-> None]]
         ELSE LET first == CHOOSE q \in failing \cap Tracked(R) :
                              \A x \in failing \cap Tracked(R) : q <= x
              IN [R EXCEPT !.qs = CloseEach(R.qs, {q \in Tracked(R) : q <= first}, {first}),
                           !.threw = TRUE]
    ELSE R

\* faulty variant: the map is cleared and the queues are left open
closeAllMessageQueuesWith_ClearsOnly(R, failing) ==
    IF Tracked(R) # {}
    THEN [R EXCEPT !.mq = [r \in Rids |-> None]]
    ELSE R

\* lines 305-317, where failing are the queues whose close() throws
closeAllMessageQueuesWith(R, failing) ==
    IF Tracked(R) # {}
    THEN [R EXCEPT !.qs = CloseEach(R.qs, Tracked(R), failing),
                   !.mq = [r \in Rids |-> None]]
    ELSE R

\* lines 305-317 with queues that close as MessageQueue does
closeAllMessageQueues(R) == closeAllMessageQueuesWith(R, {})

ValidAuthIndex(a) == ~(~a.def \/ a.val < 0 \/ ~a.int)

\* faulty variant: the old connection is closed without the replaced status
replaceExisting_NoStatus(R, w, t) ==
    LET existing == R.conn[t] IN
    IF existing # None /\ existing # w
    THEN wsClose(removeAllListeners(R, existing), existing, CloseNoArgs)
    ELSE R

\* faulty variant: the old connection is closed with its listeners attached
replaceExisting_KeepsListeners(R, w, t) ==
    LET existing == R.conn[t] IN
    IF existing # None /\ existing # w
    THEN wsClose(R, existing, CloseReplaced)
    ELSE R

\* lines 52-65: a different connection registered for the tenant is replaced
replaceExisting(R, w, t) ==
    LET existing == R.conn[t] IN
    IF existing # None /\ existing # w
    THEN wsClose(removeAllListeners(R, existing), existing, CloseReplaced)
    ELSE R

\* lines 67-83: the tenant reconnected, its grace timer is cleared
clearGraceOnAdd(R, t, ext) ==
    IF R.grace[t] # None
    THEN LET R1 == [clearTimeout(R, R.grace[t]) EXCEPT !.grace[t] = None]
         IN IF t = getCurrentAuthIndex(ext) /\ Tracked(R1) # {}
            THEN closeAllMessageQueues(R1)
            ELSE R1
    ELSE R

\* lines 85-98: store the connection, stamp it, attach the handlers
storeConnection(R, w, t) ==
    emit([R EXCEPT !.conn[t] = w,
                   !.ws[w].auth = Num(t),
                   !.ws[w].listeners = @ + 1], "connectionAdded")

\* a timer of the tenant records that the tenant registered again, before the
\* timer fired or while its callback was still running
RECURSIVE MarkEach(_, _)
MarkEach(tm, t) ==
    IF tm = <<>> THEN <<>>
    ELSE LET n == Len(tm)
             x == IF tm[n].auth = t /\ tm[n].superseded = "no"
                     /\ tm[n].status \in {"pending", "awaiting"}
                  THEN [tm[n] EXCEPT !.superseded =
                           IF tm[n].status = "pending" THEN "before" ELSE "after"]
                  ELSE tm[n]
         IN Append(MarkEach(SubSeq(tm, 1, n - 1), t), x)

MarkSuperseded(R, t) == [R EXCEPT !.tm = MarkEach(R.tm, t)]

\* faulty variant: the handlers are attached and the event emitted before the
\* tenant id is validated
addConnection_AttachesFirst(R, w, a, ext) ==
    LET R0 == [R EXCEPT !.ws[w].state = "open"] IN
    IF ~ValidAuthIndex(a)
    THEN wsClose(emit([R0 EXCEPT !.ws[w].listeners = @ + 1], "connectionAdded"),
                 w, CloseInvalid)
    ELSE LET t == a.val IN
         storeConnection(
             clearGraceOnAdd(replaceExisting(MarkSuperseded(R0, t), w, t), t, ext), w, t)

\* lines 36-100
addConnection(R, w, a, ext) ==
    LET R0 == [R EXCEPT !.ws[w].state = "open"] IN
    IF ~ValidAuthIndex(a)
    THEN wsClose(R0, w, CloseInvalid)
    ELSE LET t == a.val IN
         storeConnection(
             clearGraceOnAdd(replaceExisting(MarkSuperseded(R0, t), w, t), t, ext), w, t)

NewTimer(t) ==
    [auth |-> t, status |-> "pending", cb |-> "none", superseded |-> "no",
     expiry |-> "", firedAt |-> 0]

\* lines 134-198: the grace timer replaces the one in the map
startGraceTimer(R, t) ==
    LET R1 == IF R.grace[t] # None THEN clearTimeout(R, R.grace[t]) ELSE R
    IN [R1 EXCEPT !.tm = Append(@, NewTimer(t)), !.grace[t] = Len(R1.tm) + 1]

\* the close handler of one listener registration
removeConnection(R, w, live) ==
    LET a == R.ws[w].auth IN
    IF ~(a.def /\ a.val >= 0)
    THEN emit(R, "connectionRemoved")
    ELSE LET t == a.val
             R1 == [R EXCEPT !.conn[t] = None] IN
         CASE cfg.bm = "nocontexts" -> [R1 EXCEPT !.threw = TRUE]
           [] cfg.bm = "contexts" /\ ~live ->
                emit(IF R1.grace[t] # None
                     THEN [clearTimeout(R1, R1.grace[t]) EXCEPT !.grace[t] = None]
                     ELSE R1, "connectionRemoved")
           [] OTHER -> emit(startGraceTimer(R1, t), "connectionRemoved")

\* faulty variant: the callback ends without deleting the tenant's timer entry
finishExpiry_KeepsEntry(R, id) ==
    [emit(R, "connectionLost") EXCEPT !.tm[id].status = "done",
                                      !.tm[id].firedAt = 0]

\* lines 191-193: emit connectionLost, drop the tenant's timer entry
finishExpiry(R, id) ==
    [emit(R, "connectionLost") EXCEPT !.grace[R.tm[id].auth] = None,
                                      !.tm[id].status = "done",
                                      !.tm[id].firedAt = 0]

\* faulty variant: no finally block, the flag stays set
settleRecovery_KeepsFlag(R, id, how) == R

\* lines 176-188: the race settled or threw; the flag is deleted
settleRecovery(R, id, how) ==
    [R EXCEPT !.rec[R.tm[id].auth] = FALSE]

\* faulty variant: the callback is invoked whether or not the tenant is reconnecting
attemptRecovery_NoGuard(R, id, sync) ==
    LET t == R.tm[id].auth IN
    IF cfg.callback
    THEN LET R1 == [R EXCEPT !.rec[t] = TRUE] IN
         IF sync = "throws"
         THEN finishExpiry(settleRecovery([R1 EXCEPT !.tm[id].cb = "settled"], id, "threw"), id)
         ELSE [R1 EXCEPT !.tm[id].status = "awaiting", !.tm[id].cb = "outstanding"]
    ELSE finishExpiry(R, id)

\* faulty variant: an expiry that does not invoke the callback returns early
attemptRecovery_SkipReturns(R, id, sync) ==
    LET t == R.tm[id].auth IN
    IF cfg.callback /\ ~R.rec[t]
    THEN LET R1 == [R EXCEPT !.rec[t] = TRUE] IN
         IF sync = "throws"
         THEN finishExpiry(settleRecovery([R1 EXCEPT !.tm[id].cb = "settled"], id, "threw"), id)
         ELSE [R1 EXCEPT !.tm[id].status = "awaiting", !.tm[id].cb = "outstanding"]
    ELSE [R EXCEPT !.grace[t] = None, !.tm[id].status = "done", !.tm[id].firedAt = 0]

\* faulty variant: the callback is skipped while any tenant is reconnecting
attemptRecovery_AnyReconnecting(R, id, sync) ==
    LET t == R.tm[id].auth IN
    IF cfg.callback /\ ~(\E x \in Tenants : R.rec[x])
    THEN LET R1 == [R EXCEPT !.rec[t] = TRUE] IN
         IF sync = "throws"
         THEN finishExpiry(settleRecovery([R1 EXCEPT !.tm[id].cb = "settled"], id, "threw"), id)
         ELSE [R1 EXCEPT !.tm[id].status = "awaiting", !.tm[id].cb = "outstanding"]
    ELSE finishExpiry(R, id)

\* lines 158-175: invoke the callback unless the tenant is already reconnecting
attemptRecovery(R, id, sync) ==
    LET t == R.tm[id].auth IN
    IF cfg.callback /\ ~R.rec[t]
    THEN LET R1 == [R EXCEPT !.rec[t] = TRUE] IN
         IF sync = "throws"
         THEN finishExpiry(settleRecovery([R1 EXCEPT !.tm[id].cb = "settled"], id, "threw"), id)
         ELSE [R1 EXCEPT !.tm[id].status = "awaiting", !.tm[id].cb = "outstanding"]
    ELSE finishExpiry(R, id)

\* faulty variant: the expiry never clears the queues
expireQueues_Never(R, id, ext) == R

\* faulty variant: the expiry clears the queues for every tenant
expireQueues_Always(R, id, ext) == closeAllMessageQueues(R)

\* lines 145-156: only the current account's loss clears the queues
expireQueues(R, id, ext) ==
    IF R.tm[id].auth = getCurrentAuthIndex(ext) THEN closeAllMessageQueues(R) ELSE R

\* lines 140-194, up to the await: the grace timer's callback
graceExpire(R, id, sync, ext) ==
    LET isCurrent == R.tm[id].auth = getCurrentAuthIndex(ext)
        kind == IF isCurrent THEN "current" ELSE "other"
        R0 == [R EXCEPT !.tm[id].expiry = (IF Tracked(R) # {} THEN kind \o "+queues" ELSE kind),
                        !.tm[id].firedAt = Len(R.tm)]
    IN attemptRecovery(expireQueues(R0, id, ext), id, sync)

\* faulty variant: the flag is deleted only when the callback itself settles
resumeExpiry_TimeoutKeepsFlag(R, id, how) ==
    IF how = "timeout" THEN finishExpiry(R, id)
    ELSE finishExpiry(settleRecovery(R, id, how), id)

\* faulty variant: the catch block passes the failure on; the finally block
\* still runs, the rest of the timer callback does not
resumeExpiry_Rethrows(R, id, how) ==
    IF how = "resolved"
    THEN finishExpiry(settleRecovery(R, id, how), id)
    ELSE [settleRecovery(R, id, how) EXCEPT !.tm[id].status = "done",
                                            !.tm[id].firedAt = 0,
                                            !.threw = TRUE]

\* lines 175-193: the callback resumes after the race
resumeExpiry(R, id, how) == finishExpiry(settleRecovery(R, id, how), id)

\* faulty variant: the late settlement runs the rest of the timer callback again
lateSettle_ResumesAgain(R, id) ==
    finishExpiry(settleRecovery([R EXCEPT !.tm[id].cb = "settled"], id, "resolved"), id)

\* lines 168-175: the callback's promise settles after Promise.race was decided
\* by the timeout; the race has settled and nothing else awaits the promise
lateSettle(R, id) == [R EXCEPT !.tm[id].cb = "settled"]

\* lines 265-285
closeConnectionByAuth(R, t) ==
    LET connection == R.conn[t] IN
    IF connection # None
    THEN LET R1 == [wsClose(R, connection, CloseNoArgs) EXCEPT !.conn[t] = None]
         IN IF R1.grace[t] # None
            THEN [clearTimeout(R1, R1.grace[t]) EXCEPT !.grace[t] = None]
            ELSE R1
    ELSE R

\* lines 287-291
createMessageQueue(R, r) ==
    [R EXCEPT !.qs = Append(@, NewQueue),
              !.mq[r] = Len(R.qs) + 1]

\* faulty variant: the queue is dropped from the map without being closed
removeMessageQueue_NoClose(R, r) ==
    IF R.mq[r] # None
    THEN [R EXCEPT !.mq[r] = None]
    ELSE R

\* lines 293-299
removeMessageQueue(R, r) ==
    IF R.mq[r] # None
    THEN [R EXCEPT !.qs[R.mq[r]] = queueClose(@), !.mq[r] = None]
    ELSE R

\* ---- routing ----

\* a raw frame is text; JSON.parse throws on anything that is not JSON
RawFrames ==
    {[json |-> FALSE, request_id |-> "", event_type |-> ""]} \cup
    {[json |-> TRUE, request_id |-> r, event_type |-> e] :
        r \in Rids \cup {""}, e \in EventTypes}

JsonParse(raw) == [request_id |-> raw.request_id, event_type |-> raw.event_type]

\* faulty variant: stream_close is passed through like the other events
routeMessage_RawClose(R, message, q) ==
    CASE message.event_type \in {"response_headers", "chunk", "error", "stream_close"} ->
            [R EXCEPT !.qs[q] = queueEnqueue(@, message)]
      [] OTHER -> R

\* faulty variant: stream_close closes the stream without a marker
routeMessage_NoMarker(R, message, q) ==
    CASE message.event_type \in {"response_headers", "chunk", "error"} ->
            [R EXCEPT !.qs[q] = queueEnqueue(@, message)]
      [] OTHER -> R

\* faulty variant: the default case enqueues the frame
routeMessage_DefaultEnqueues(R, message, q) ==
    CASE message.event_type = "stream_close" ->
            [R EXCEPT !.qs[q] = queueEnqueue(@, STREAM_END)]
      [] OTHER -> [R EXCEPT !.qs[q] = queueEnqueue(@, message)]

\* faulty variant: the event is enqueued to every tracked queue
routeMessage_Broadcast(R, message, q) ==
    LET RECURSIVE All(_)
        All(qs) ==
            IF qs = <<>> THEN <<>>
            ELSE LET n == Len(qs)
                     x == IF n \in Tracked(R)
                          THEN queueEnqueue(qs[n], IF message.event_type = "stream_close"
                                                   THEN STREAM_END ELSE message)
                          ELSE qs[n]
                 IN Append(All(SubSeq(qs, 1, n - 1)), x)
    IN CASE message.event_type \in {"response_headers", "chunk", "error", "stream_close"} ->
                [R EXCEPT !.qs = All(R.qs)]
         [] OTHER -> R

\* lines 222-236
routeMessage(R, message, q) ==
    CASE message.event_type \in {"response_headers", "chunk", "error"} ->
            [R EXCEPT !.qs[q] = queueEnqueue(@, message)]
      [] message.event_type = "stream_close" ->
            [R EXCEPT !.qs[q] = queueEnqueue(@, STREAM_END)]
      [] OTHER -> R

\* faulty variant: a frame for an unknown request id gets a queue of its own
handleIncomingMessage_CreatesOnMiss(R, raw) ==
    IF ~raw.json
    THEN R
    ELSE LET parsedMessage == JsonParse(raw)
             requestId == parsedMessage.request_id
         IN IF requestId = ""
            THEN R
            ELSE IF R.mq[requestId] # None
                 THEN routeMessage(R, parsedMessage, R.mq[requestId])
                 ELSE [R EXCEPT !.qs = Append(@, NewQueue),
                                !.mq[requestId] = Len(R.qs) + 1]

\* faulty variant: a frame for an unknown request id is routed to a new queue
\* registered under that id
handleIncomingMessage_RecreatesOnMiss(R, raw) ==
    IF ~raw.json
    THEN R
    ELSE LET parsedMessage == JsonParse(raw)
             requestId == parsedMessage.request_id
         IN IF requestId = ""
            THEN R
            ELSE IF R.mq[requestId] # None
                 THEN routeMessage(R, parsedMessage, R.mq[requestId])
                 ELSE routeMessage([R EXCEPT !.qs = Append(@, NewQueue),
                                             !.mq[requestId] = Len(R.qs) + 1],
                                   parsedMessage, Len(R.qs) + 1)

\* lines 203-220
handleIncomingMessage(R, raw) ==
    IF ~raw.json
    THEN R
    ELSE LET parsedMessage == JsonParse(raw)
             requestId == parsedMessage.request_id
         IN IF requestId = ""
            THEN R
            ELSE IF R.mq[requestId] # None
                 THEN routeMessage(R, parsedMessage, R.mq[requestId])
                 ELSE R

\* a socket event runs the handler of every registration in turn; a handler
\* that throws ends the emit
RECURSIVE EmitClose(_, _, _, _)
EmitClose(R, w, live, n) ==
    IF n = 0 \/ R.threw THEN R ELSE EmitClose(removeConnection(R, w, live), w, live, n - 1)

RECURSIVE EmitMessage(_, _, _)
EmitMessage(R, raw, n) ==
    IF n = 0 THEN R ELSE EmitMessage(handleIncomingMessage(R, raw), raw, n - 1)

TotalItems(R) ==
    LET RECURSIVE Sum(_)
        Sum(i) == IF i = 0 THEN 0 ELSE Len(R.qs[i].items) + Sum(i - 1)
    IN Sum(Len(R.qs))

\* ---- the state after construction ----

Configs == [callback : BOOLEAN, getCurrent : BOOLEAN, bm : {"null", "contexts", "nocontexts"}]

InitState ==
    /\ cfg \in Configs
    /\ connectionsByAuth = [t \in Tenants |-> None]
    /\ messageQueues = [r \in Rids |-> None]
    /\ reconnectGraceTimers = [t \in Tenants |-> None]
    /\ reconnectingAccounts = [t \in Tenants |-> FALSE]
    /\ sockets = [w \in 1 .. lim.ws |-> [state |-> "unborn", auth |-> Undefined,
                                   listeners |-> 0, closeCall |-> NotClosed]]
    /\ timers = <<>>
    /\ queues = <<>>
    /\ manager = Constructed
    /\ launch = NotLaunching

Init ==
    /\ lim = [tenants |-> MaxTenants, ws |-> MaxWs, timers |-> MaxTimers,
              queues |-> MaxQueues, frames |-> MaxFrames, listeners |-> MaxListeners]
    /\ InitState

InitExpiry ==
    /\ lim = [tenants |-> ExpTenants, ws |-> ExpWs, timers |-> ExpTimers,
              queues |-> ExpQueues, frames |-> ExpFrames, listeners |-> ExpListeners]
    /\ InitState

InitAdds ==
    /\ lim = [tenants |-> AddsTenants, ws |-> AddsWs, timers |-> MaxTimers,
              queues |-> MaxQueues, frames |-> MaxFrames, listeners |-> AddsListeners]
    /\ InitState

InitFair ==
    /\ lim = [tenants |-> MaxTenants, ws |-> FairWs, timers |-> FairTimers,
              queues |-> MaxQueues, frames |-> MaxFrames, listeners |-> MaxListeners]
    /\ InitState

InitRoute ==
    /\ lim = [tenants |-> RouteTenants, ws |-> RouteWs, timers |-> RouteTimers,
              queues |-> RouteQueues, frames |-> RouteFrames, listeners |-> RouteListeners]
    /\ InitState

\* ---- actions ----

Env == UNCHANGED <<lim, cfg, manager, launch>>

\* the acceptor hands a new socket to the registry, or registers again the
\* instance that is registered for the tenant
AddConnection(w, a, ext) ==
    /\ a.val < lim.tenants
    /\ \/ sockets[w].state = "unborn" /\ \A v \in 1 .. (w - 1) : sockets[v].state # "unborn"
       \/ /\ sockets[w].state = "open"
          /\ sockets[w].auth = a
          /\ ValidAuthIndex(a)
          /\ connectionsByAuth[a.val] = w
          /\ sockets[w].listeners < lim.listeners
    /\ ext \in CurrentAnswers
    /\ Commit(addConnection(Reg, w, a, ext))
    /\ Env

\* the socket's close event reaches the registry
CloseEvent(w, live) ==
    /\ sockets[w].state \in {"open", "closing"}
    /\ sockets[w].listeners > 0
    /\ Len(timers) + sockets[w].listeners <= lim.timers
    /\ live \in LiveAnswers
    /\ Commit(EmitClose([Reg EXCEPT !.ws[w].state = "closed", !.ws[w].listeners = 0],
                        w, live, sockets[w].listeners))
    /\ Env

\* a frame arrives on a socket
Message(w, raw) ==
    /\ sockets[w].state \in {"open", "closing"}
    /\ sockets[w].listeners > 0
    /\ TotalItems(EmitMessage(Reg, raw, sockets[w].listeners)) <= lim.frames
    /\ Commit(EmitMessage(Reg, raw, sockets[w].listeners))
    /\ Env

\* timers of one delay fire in the order they were started
GraceExpire(id, sync, ext) ==
    /\ id \in DOMAIN timers
    /\ timers[id].status = "pending"
    /\ \A j \in 1 .. (id - 1) : timers[j].status # "pending"
    /\ ext \in CurrentAnswers
    /\ Commit(graceExpire(Reg, id, sync, ext))
    /\ Env

\* the callback's promise resolves or rejects while the race is awaited
RecoverySettle(id, how) ==
    /\ id \in DOMAIN timers
    /\ timers[id].status = "awaiting"
    /\ Commit(resumeExpiry([Reg EXCEPT !.tm[id].cb = "settled"], id, how))
    /\ Env

\* the 55 s timer of the race fires: later than every grace timer that was
\* pending when the race began, and after the races begun before it
RecoveryTimeout(id) ==
    /\ id \in DOMAIN timers
    /\ timers[id].status = "awaiting"
    /\ \A j \in DOMAIN timers :
          /\ j <= timers[id].firedAt => timers[j].status # "pending"
          /\ j < id => timers[j].status # "awaiting"
    /\ Commit(resumeExpiry(Reg, id, "timeout"))
    /\ Env

\* the callback's promise settles after the race was lost to the timeout
LateSettle(id) ==
    /\ id \in DOMAIN timers
    /\ timers[id].status = "done"
    /\ timers[id].cb = "outstanding"
    /\ Commit(lateSettle(Reg, id))
    /\ Env

CloseConnectionByAuth(t) ==
    /\ Commit(closeConnectionByAuth(Reg, t))
    /\ Env

\* the request-handling layer registers a queue for a new request; the ids of
\* the requests in flight are distinct
CreateMessageQueue(r) ==
    /\ Len(queues) < lim.queues
    /\ messageQueues[r] = None
    /\ Commit(createMessageQueue(Reg, r))
    /\ Env

RemoveMessageQueue(r) ==
    /\ Commit(removeMessageQueue(Reg, r))
    /\ Env

CloseAllMessageQueues ==
    /\ Commit(closeAllMessageQueues(Reg))
    /\ Env

TimerIds == DOMAIN timers

WsIds == DOMAIN sockets

Next ==
    \/ \E w \in WsIds, a \in AuthInputs, ext \in Tenants \cup {NoCurrent} :
          AddConnection(w, a, ext)
    \/ \E w \in WsIds, live \in BOOLEAN : CloseEvent(w, live)
    \/ \E w \in WsIds, raw \in RawFrames : Message(w, raw)
    \/ \E id \in TimerIds, sync \in {"promise", "throws"},
          ext \in Tenants \cup {NoCurrent} : GraceExpire(id, sync, ext)
    \/ \E id \in TimerIds, how \in {"resolved", "rejected"} : RecoverySettle(id, how)
    \/ \E id \in TimerIds : RecoveryTimeout(id)
    \/ \E id \in TimerIds : LateSettle(id)
    \/ \E t \in Tenants : CloseConnectionByAuth(t)
    \/ \E r \in Rids : CreateMessageQueue(r)
    \/ \E r \in Rids : RemoveMessageQueue(r)
    \/ CloseAllMessageQueues

Spec == Init /\ [][Next]_vars

SpecExpiry == InitExpiry /\ [][Next]_vars

\* nothing but addConnection calls
NextAdds ==
    \E w \in WsIds, a \in AuthInputs, ext \in Tenants \cup {NoCurrent} : AddConnection(w, a, ext)

SpecAdds == InitAdds /\ [][NextAdds]_vars

\* setTimeout timers fire: a pending grace timer expires, a recovery race
\* that nothing settles is ended by its timeout
SpecFair ==
    /\ InitFair
    /\ [][Next]_vars
    /\ WF_vars(\E id \in TimerIds, ext \in Tenants \cup {NoCurrent} :
                  GraceExpire(id, "promise", ext))
    /\ WF_vars(\E id \in TimerIds : RecoveryTimeout(id))

SpecRoute == InitRoute /\ [][Next]_vars

\* ---- the browser manager on its own ----

\* the registry is not used: its fields stay as constructed
RegistryIdle ==
    UNCHANGED <<lim, cfg, connectionsByAuth, messageQueues, reconnectGraceTimers,
                reconnectingAccounts, sockets, timers, queues>>

CommitMgr(S) ==
    /\ manager' = S.m
    /\ launch' = S.l
    /\ RegistryIdle

LaunchOrSwitchContext(authIndex, hasCache) ==
    /\ launch.pc = "idle"
    /\ launch.calls < MaxLaunches
    /\ CommitMgr(launchOrSwitchContext(Mgr, authIndex, hasCache))

CloseOldDone ==
    /\ launch.pc = "closeOld"
    /\ CommitMgr(closeOldDone(Mgr))

GetAuth(found) ==
    /\ launch.pc = "getAuth"
    /\ CommitMgr(getAuth(Mgr, found))

LaunchPersistentContextForAccount(how) ==
    /\ launch.pc = "launch"
    /\ CommitMgr(launchPersistentContextForAccount(Mgr, how))

InitContext(ok) ==
    /\ launch.pc = "init"
    /\ CommitMgr(initContext(Mgr, ok))

ActiveTrigger ==
    /\ launch.pc = "trigger"
    /\ CommitMgr(activeTrigger(Mgr))

UpdateAuthFile(ok) ==
    /\ launch.pc = "save"
    /\ CommitMgr(updateAuthFile(Mgr, ok))

InitFailed ==
    /\ launch.pc = "failed"
    /\ CommitMgr(initFailed(Mgr))

CloseFailedDone ==
    /\ launch.pc = "closeFailed"
    /\ CommitMgr(closeFailedDone(Mgr))

\* the browser process ends, by itself or because it is being closed
Disconnected ==
    /\ launch.alive
    /\ CommitMgr(onDisconnected(Mgr))

InitBrowser ==
    /\ Init
    /\ cfg = [callback |-> TRUE, getCurrent |-> TRUE, bm |-> "nocontexts"]

NextBrowser ==
    \/ \E a \in Accounts \cup {NumAccounts}, c \in BOOLEAN : LaunchOrSwitchContext(a, c)
    \/ CloseOldDone
    \/ \E found \in BOOLEAN : GetAuth(found)
    \/ \E how \in {"ok", "noexec", "throws"} : LaunchPersistentContextForAccount(how)
    \/ \E ok \in BOOLEAN : InitContext(ok)
    \/ ActiveTrigger
    \/ \E ok \in BOOLEAN : UpdateAuthFile(ok)
    \/ InitFailed
    \/ CloseFailedDone
    \/ Disconnected

SpecBrowser == InitBrowser /\ [][NextBrowser]_vars

\* ---- queries ----

\* lines 249-259
getConnectionByAuth(t) == connectionsByAuth[t]

\* lines 238-241
isReconnectingInProgress(R) == \E t \in Tenants : R.rec[t]

\* faulty variant: any tenant's grace timer entry counts
isInGracePeriod_AnyTenant(R, ext) == \E t \in Tenants : R.grace[t] # None

\* lines 243-247
isInGracePeriod(R, ext) ==
    LET currentAuthIndex == getCurrentAuthIndex(ext)
    IN currentAuthIndex >= 0 /\ R.grace[currentAuthIndex] # None

\* ---- C1 ----

\* the sockets that addConnection stamped with the tenant
StampedWith(t) == {w \in WsIds : sockets[w].auth = Num(t) /\ sockets[w].state # "unborn"}

\* sockets are accepted in the order of their ids
LastAdded(t) == CHOOSE w \in StampedWith(t) : \A v \in StampedWith(t) : v <= w

\* C1: after any sequence of addConnection calls for a valid tenant id the lookup
\* returns the handle added last, and every other handle that was registered for
\* the tenant has had its listeners removed and was closed with 1000,
\* "Replaced by new connection"
C1_OneConnectionPerTenant ==
    \A t \in Tenants :
        StampedWith(t) # {} =>
            /\ getConnectionByAuth(t) = LastAdded(t)
            /\ sockets[LastAdded(t)].state = "open"
            /\ \A w \in StampedWith(t) \ {LastAdded(t)} :
                  /\ sockets[w].closeCall = CloseReplaced
                  /\ sockets[w].state = "closing"
                  /\ sockets[w].listeners = 0

C1_Witness ==
    \E t \in Tenants :
        /\ Cardinality(StampedWith(t)) = 3
        /\ getConnectionByAuth(t) = 3
        /\ sockets[1].closeCall = CloseReplaced
        /\ sockets[2].closeCall = CloseReplaced

\* ---- C2 ----

Fired(id) == timers[id].status \in {"awaiting", "done"}

\* C2: a grace timer that was still pending when addConnection ran for its
\* tenant never invokes the recovery callback and never force-closes queues
C2_ReconnectCancelsExpiry ==
    \A id \in TimerIds :
        timers[id].superseded = "before" =>
            /\ timers[id].cb = "none"
            /\ timers[id].expiry # "current+queues"

\* ---- C3 ----

Outstanding(t) == {id \in TimerIds : timers[id].auth = t /\ timers[id].cb = "outstanding"}

Awaited(t) == {id \in TimerIds : timers[id].auth = t /\ timers[id].status = "awaiting"}

\* C3 as stated: at most one recovery invocation per tenant has not settled
C3_OneUnsettledInvocation ==
    \A t \in Tenants : Cardinality(Outstanding(t)) <= 1

\* C3: at most one recovery invocation per tenant is being awaited by the
\* registry (neither settled nor timed out), and the tenant's flag is set
\* while it is
C3_OneAwaitedInvocation ==
    \A t \in Tenants :
        /\ Cardinality(Awaited(t)) <= 1
        /\ Awaited(t) # {} => reconnectingAccounts[t]

\* a second grace timer of the tenant expired while the first invocation was
\* awaited, and the callback was not invoked for it
C3_Witness ==
    \E t \in Tenants, i, j \in TimerIds :
        /\ timers[i].auth = t /\ timers[j].auth = t
        /\ timers[i].status = "awaiting"
        /\ timers[j].status = "done" /\ timers[j].cb = "none"
        /\ i < j
        /\ cfg.callback

\* ---- C4 ----

\* the step in which the grace timer fires and its callback runs up to the await
Fires(id) == timers[id].status = "pending" /\ timers'[id].status \in {"awaiting", "done"}

\* the step in which the callback resumes after the race and completes
Completes(id) == timers[id].status = "awaiting" /\ timers'[id].status = "done"

\* C4: with no help from the callback (it may never settle) a set reconnecting
\* flag is eventually cleared, and a grace timer of the tenant that fires while
\* the flag is clear invokes the recovery callback
C4_RecoveryTimeoutBound ==
    /\ \A t \in Tenants : reconnectingAccounts[t] ~> ~reconnectingAccounts[t]
    /\ [][\A id \in TimerIds :
             (Fires(id) /\ cfg.callback /\ ~reconnectingAccounts[timers[id].auth])
                 => timers'[id].cb # "none"]_vars

\* an invocation that never settled was timed out, the flag was cleared, and a
\* later expiry of the same tenant invoked the callback again
C4_Witness ==
    \E i, j \in TimerIds :
        /\ i < j
        /\ timers[i].auth = timers[j].auth
        /\ timers[i].status = "done" /\ timers[i].cb = "outstanding"
        /\ timers[j].status = "awaiting" /\ timers[j].cb = "outstanding"
        /\ reconnectingAccounts[timers[j].auth]

\* ---- C5 ----

\* C5: when a grace timer fires for the tenant the accessor reports as current,
\* that same step, which ends with the recovery callback invoked, closes every
\* tracked queue and empties the queue map; a closed queue stays closed and out
\* of the map, so this still holds when the callback completes
C5_CurrentExpiryClosesQueues ==
    [][/\ \A id \in TimerIds :
             (Fires(id) /\ timers'[id].expiry \in {"current", "current+queues"}) =>
                 /\ \A r \in Rids : messageQueues'[r] = None
                 /\ \A q \in Tracked(Reg) : ~queues'[q].open
        /\ \A q \in DOMAIN queues :
             /\ ~queues[q].open => ~queues'[q].open
             /\ (\A r \in Rids : messageQueues[r] # q) =>
                   (\A r \in Rids : messageQueues'[r] # q)]_vars

\* two tracked queues were closed by an expiry whose recovery has completed
C5_Witness ==
    \E id \in TimerIds :
        /\ timers[id].expiry = "current+queues"
        /\ timers[id].status = "done"
        /\ timers[id].cb = "settled"
        /\ Len(queues) = 2
        /\ \A q \in DOMAIN queues : ~queues[q].open
        /\ \A r \in Rids : messageQueues[r] = None

\* ---- C6 ----

\* C6: no step of the callback of a grace timer that fired for a tenant other
\* than the current one, neither the expiry nor the completion of its recovery,
\* changes the queue map or any queue
C6_OtherExpiryKeepsQueues ==
    [][\A id \in TimerIds :
          ((Fires(id) \/ Completes(id)) /\ timers'[id].expiry \in {"other", "other+queues"})
              => UNCHANGED <<messageQueues, queues>>]_vars

\* a background tenant's expiry and recovery completed and a tracked queue is
\* still open and holds its event
C6_Witness ==
    \E id \in TimerIds, r \in Rids :
        /\ timers[id].expiry = "other+queues"
        /\ timers[id].status = "done"
        /\ timers[id].cb = "settled"
        /\ messageQueues[r] # None
        /\ queues[messageQueues[r]].open
        /\ Len(queues[messageQueues[r]].items) = 1

\* ---- C7 ----

FramesOf(r) == {raw \in RawFrames : raw.json /\ raw.request_id = r}

\* the frame sequences of one request id, up to RouteSeqLen frames
RECURSIVE FrameSeqs(_, _)
FrameSeqs(r, n) ==
    IF n = 0 THEN {<<>>}
    ELSE LET shorter == FrameSeqs(r, n - 1)
         IN shorter \cup {Append(fs, raw) : fs \in shorter, raw \in FramesOf(r)}

\* the handler run on each frame in wire order
RECURSIVE RouteAll(_, _)
RouteAll(R, fs) ==
    IF fs = <<>> THEN R
    ELSE handleIncomingMessage(RouteAll(R, SubSeq(fs, 1, Len(fs) - 1)), fs[Len(fs)])

\* what the queue's consumer is to find for the frames: headers, chunks and
\* errors as they came, one end-of-stream marker for each stream_close
RECURSIVE Delivered(_)
Delivered(fs) ==
    IF fs = <<>> THEN <<>>
    ELSE LET raw == fs[Len(fs)]
             before == Delivered(SubSeq(fs, 1, Len(fs) - 1))
         IN IF raw.event_type = "stream_close"
            THEN Append(before, [type |-> "STREAM_END"])
            ELSE IF raw.event_type \in {"response_headers", "chunk", "error"}
                 THEN Append(before, [request_id |-> raw.request_id,
                                      event_type |-> raw.event_type])
                 ELSE before

\* C7: in every reachable state, routing any sequence of frames of a request id
\* whose queue is registered appends to that queue the headers, chunk and error
\* frames unchanged and in wire order, and one STREAM_END marker in place of
\* each stream_close frame
C7_RoutingCorrectness ==
    \A r \in Rids :
        messageQueues[r] # None =>
            \A fs \in FrameSeqs(r, RouteSeqLen) :
                RouteAll(Reg, fs).qs[messageQueues[r]].items =
                    queues[messageQueues[r]].items \o Delivered(fs)

\* a registered queue holds headers, a chunk and the end marker, in that order
C7_Witness ==
    \E r \in Rids :
        /\ messageQueues[r] # None
        /\ queues[messageQueues[r]].items =
              << [request_id |-> r, event_type |-> "response_headers"],
                 [request_id |-> r, event_type |-> "chunk"],
                 [type |-> "STREAM_END"] >>

\* ---- C8 ----

\* C8: in every reachable state the handler, given any frame whose request id
\* has no registered queue, raises nothing and leaves the queue map, the queues
\* and the rest of the registry as they were
C8_DropOnMiss ==
    \A raw \in RawFrames :
        (raw.json /\ raw.request_id \in Rids /\ messageQueues[raw.request_id] = None)
            => handleIncomingMessage(Reg, raw) = Reg

\* a frame can arrive for a request id whose queue has been removed, while
\* another request's queue is registered and has received its events
C8_Witness ==
    \E w \in WsIds, r, x \in Rids :
        /\ sockets[w].state = "open" /\ sockets[w].listeners > 0
        /\ messageQueues[r] = None
        /\ messageQueues[x] # None
        /\ Len(queues[messageQueues[x]].items) > 0
        /\ \E q \in DOMAIN queues : ~queues[q].open

\* ---- C9 ----

\* the tenant's loss is not finalized: the grace timer started last for it has
\* neither been cancelled nor completed its callback, and the tenant has not
\* registered again since
LossPending(t) ==
    \E id \in TimerIds :
        /\ timers[id].auth = t
        /\ \A j \in TimerIds : timers[j].auth = t => j <= id
        /\ timers[id].status \in {"pending", "awaiting"}
        /\ timers[id].superseded = "no"

\* C9: a grace timer entry exists for a tenant exactly when the tenant has no
\* registered connection and its loss is not finalized
C9_TimerIffLossPending ==
    \A t \in Tenants :
        reconnectGraceTimers[t] # None <=> (connectionsByAuth[t] = None /\ LossPending(t))

\* ---- C10 ----

PendingTimers(t) == {id \in TimerIds : timers[id].auth = t /\ timers[id].status = "pending"}

\* C10: at most one grace timer per tenant is scheduled and neither fired nor
\* cancelled
C10_OnePendingTimer ==
    \A t \in Tenants : Cardinality(PendingTimers(t)) <= 1

\* ---- C11 ----

\* the registry's own maps and the timers and queues it holds
RegistryState(R) == <<R.conn, R.mq, R.grace, R.rec, R.tm, R.qs>>

\* C11: in every reachable state, addConnection of a new socket with a tenant id
\* that is undefined, negative or not an integer closes the socket with 1008 and
\* changes nothing else: the maps, timers, flags and queues are as before, no
\* handler is attached to the socket, it is not stamped, no other socket is
\* touched, no event is emitted and nothing is raised
C11_InvalidAuthIndexRejected ==
    \A w \in WsIds, a \in AuthInputs, ext \in CurrentAnswers :
        (sockets[w].state = "unborn" /\ ~ValidAuthIndex(a)) =>
            LET R1 == addConnection(Reg, w, a, ext) IN
            /\ RegistryState(R1) = RegistryState(Reg)
            /\ R1.ws[w] = [sockets[w] EXCEPT !.state = "closing", !.closeCall = CloseInvalid]
            /\ \A v \in WsIds \ {w} : R1.ws[v] = sockets[v]
            /\ R1.emitted = <<>>
            /\ ~R1.threw

\* a socket was rejected while another tenant's connection was registered and a
\* later socket was accepted after it
C11_Witness ==
    /\ sockets[2].closeCall = CloseInvalid
    /\ sockets[2].auth = Undefined
    /\ sockets[2].listeners = 0
    /\ connectionsByAuth[0] = 3
    /\ sockets[1].closeCall = CloseReplaced

\* ---- C12 ----

\* the sockets that addConnection replaced by another instance
Replaced == {w \in WsIds : sockets[w].closeCall = CloseReplaced}

\* C12: a replaced connection has no listener left, so in every reachable state
\* its close event (whatever the page liveness) and any frame arriving on it run
\* no handler: the connection map still holds the new connection, no grace
\* timer is started or cleared, no frame is routed, nothing is emitted
C12_ReplacedConnectionIsDetached ==
    \A w \in Replaced :
        /\ sockets[w].listeners = 0
        /\ \A live \in LiveAnswers :
              LET R1 == EmitClose([Reg EXCEPT !.ws[w].state = "closed", !.ws[w].listeners = 0],
                                  w, live, sockets[w].listeners)
              IN RegistryState(R1) = RegistryState(Reg) /\ R1.emitted = <<>> /\ ~R1.threw
        /\ \A raw \in RawFrames :
              EmitMessage(Reg, raw, sockets[w].listeners) = Reg

\* the replaced connection is still closing while its successor is registered
\* and a request's queue could receive frames
C12_Witness ==
    \E w \in Replaced, t \in Tenants, r \in Rids :
        /\ sockets[w].state = "closing"
        /\ sockets[w].auth = Num(t)
        /\ connectionsByAuth[t] # None
        /\ connectionsByAuth[t] # w
        /\ sockets[connectionsByAuth[t]].state = "open"
        /\ messageQueues[r] # None

\* ---- C13 ----

\* the tenant lost its connection and its grace timer has not fired
InGracePeriod(t) == connectionsByAuth[t] = None /\ PendingTimers(t) # {}

\* C13: in every reachable state, addConnection of a new socket for a tenant in
\* its grace period closes every tracked queue and empties the queue map when
\* the accessor reports that tenant as current and a queue is tracked, and
\* leaves the queue map and every queue as they were when the tenant is not
\* the current one
C13_ReconnectClosesCurrentQueues ==
    \A t \in Tenants, w \in WsIds, ext \in CurrentAnswers :
        (sockets[w].state = "unborn" /\ InGracePeriod(t)) =>
            LET R1 == addConnection(Reg, w, Num(t), ext) IN
            IF t = getCurrentAuthIndex(ext)
            THEN Tracked(Reg) # {} =>
                    /\ \A r \in Rids : R1.mq[r] = None
                    /\ \A q \in Tracked(Reg) : ~R1.qs[q].open
            ELSE R1.mq = messageQueues /\ R1.qs = queues

\* ---- C14 ----

\* C14: in every reachable state, closeConnectionByAuth for a tenant with a
\* registered connection calls close() on it, removes the tenant's entry from
\* the connection map in the same call, and leaves the tenant with no grace
\* timer, neither in the timer map nor armed; for a tenant with no registered
\* connection it changes nothing; getConnectionByAuth reads the map
C14_ExplicitCloseIsImmediate ==
    \A t \in Tenants :
        LET c == getConnectionByAuth(t)
            R1 == closeConnectionByAuth(Reg, t)
        IN IF c # None
           THEN /\ R1.ws[c].state = "closing"
                /\ R1.ws[c].closeCall = CloseNoArgs
                /\ R1.conn = [connectionsByAuth EXCEPT ![t] = None]
                /\ R1.grace[t] = None
                /\ \A id \in DOMAIN R1.tm :
                      R1.tm[id].auth = t => R1.tm[id].status # "pending"
                /\ ~R1.threw
           ELSE R1 = Reg

\* ---- C15 ----

\* the sockets whose close event would run the registry's close handler
Listening == {w \in WsIds : sockets[w].state \in {"open", "closing"} /\ sockets[w].listeners > 0}

\* C15: in every reachable state of a registry whose browser manager answers
\* the liveness question, the close event of a tenant's connection whose page
\* is reported gone leaves the tenant with no grace timer, neither in the
\* timer map nor armed, starts no timer, and changes no queue and no
\* recovery invocation
C15_PageGoneSkipsReconnect ==
    cfg.bm = "contexts" =>
        \A w \in Listening :
            LET t == sockets[w].auth.val
                R1 == EmitClose([Reg EXCEPT !.ws[w].state = "closed", !.ws[w].listeners = 0],
                                w, FALSE, sockets[w].listeners)
            IN /\ R1.grace[t] = None
               /\ \A id \in DOMAIN R1.tm :
                     R1.tm[id].auth = t => R1.tm[id].status # "pending"
               /\ Len(R1.tm) = Len(timers)
               /\ \A id \in TimerIds : R1.tm[id].cb = timers[id].cb
               /\ R1.rec = reconnectingAccounts
               /\ R1.mq = messageQueues /\ R1.qs = queues
               /\ ~R1.threw

\* ---- C16 ----

\* the ways the awaited race can end
Outcomes == {"resolved", "rejected", "timeout"}

\* the timer callback resumed with the outcome of its race
Resumed(id, how) ==
    resumeExpiry(IF how = "timeout" THEN Reg ELSE [Reg EXCEPT !.tm[id].cb = "settled"], id, how)

\* the timer callback ran to its end and emitted connectionLost
RanToEnd(R, id) ==
    /\ ~R.threw
    /\ R.tm[id].status = "done"
    /\ R.emitted = <<"connectionLost">>

\* C16: in every reachable state, however the awaited recovery of a timer ends
\* (the callback resolves, rejects, or the timeout wins) the resumed timer
\* callback deletes the tenant's reconnecting flag, raises nothing and goes on
\* to emit connectionLost; the same holds when the callback throws at its
\* invocation
C16_FlagClearedOnCompletion ==
    \A id \in TimerIds :
        LET t == timers[id].auth IN
        /\ timers[id].status = "awaiting" =>
              \A how \in Outcomes :
                  ~Resumed(id, how).rec[t] /\ RanToEnd(Resumed(id, how), id)
        /\ (timers[id].status = "pending" /\ cfg.callback /\ ~reconnectingAccounts[t]) =>
              \A ext \in CurrentAnswers :
                  LET R1 == graceExpire(Reg, id, "throws", ext)
                  IN ~R1.rec[t] /\ RanToEnd(R1, id) /\ R1.tm[id].cb = "settled"

\* a recovery was ended by the timeout with the callback still unsettled: the
\* flag is clear and the tenant's loss is finalized
C16_Witness ==
    \E id \in TimerIds :
        /\ timers[id].status = "done"
        /\ timers[id].cb = "outstanding"
        /\ ~reconnectingAccounts[timers[id].auth]
        /\ reconnectGraceTimers[timers[id].auth] = None
        /\ connectionsByAuth[timers[id].auth] = None

\* ---- C17 ----

\* the timer callback ended: one connectionLost, then the tenant's entry removed
EndedWithLost(R, id) == RanToEnd(R, id) /\ R.grace[R.tm[id].auth] = None

\* the status of the id-th timer of the behaviour
StatusOf(id) == IF id \in TimerIds THEN timers[id].status ELSE "unborn"

\* C17: a grace timer that fires either runs to its end in that step, emitting
\* connectionLost once and leaving the tenant without a timer entry, or awaits
\* its recovery and emits nothing before the recovery ends; when the recovery
\* ends, however it ends, the callback emits connectionLost once and removes
\* the entry; a callback that ended never runs again, and a callback that
\* awaits its recovery does end
C17_ConnectionLostOncePerExpiry ==
    /\ [](\A id \in TimerIds :
            /\ timers[id].status = "pending" =>
                  \A sync \in {"promise", "throws"}, ext \in CurrentAnswers :
                      LET R1 == graceExpire(Reg, id, sync, ext) IN
                      \/ EndedWithLost(R1, id)
                      \/ R1.tm[id].status = "awaiting" /\ R1.emitted = <<>> /\ ~R1.threw
            /\ timers[id].status = "awaiting" =>
                  \A how \in Outcomes : EndedWithLost(Resumed(id, how), id))
    /\ [][\A id \in TimerIds : timers[id].status = "done" => timers'[id].status = "done"]_vars
    /\ \A id \in 1 .. FairTimers :
          (StatusOf(id) = "awaiting") ~> (StatusOf(id) = "done")

\* two expiries of one tenant ended: the first after its recovery, the second
\* without invoking the callback because the tenant was already reconnecting
C17_Witness ==
    \E i, j \in TimerIds :
        /\ i < j
        /\ timers[i].auth = timers[j].auth
        /\ timers[i].status = "done" /\ timers[i].cb # "none"
        /\ timers[j].status = "done" /\ timers[j].cb = "none"
        /\ cfg.callback
        /\ reconnectGraceTimers[timers[i].auth] = None

\* ---- C18 ----

\* what the registry holds for one tenant: its connection entry, its timer
\* entry, its flag and its timers
TenantState(R, t) ==
    <<R.conn[t], R.grace[t], R.rec[t],
      [id \in {i \in DOMAIN R.tm : R.tm[i].auth = t} |-> R.tm[id]]>>

\* the outcomes of every handler run the registry can make for tenant a
StepsFor(a) ==
    {addConnection(Reg, w, Num(a), ext) :
        w \in {v \in WsIds : sockets[v].state = "unborn" \/ connectionsByAuth[a] = v},
        ext \in CurrentAnswers}
    \cup {EmitClose([Reg EXCEPT !.ws[w].state = "closed", !.ws[w].listeners = 0],
                     w, live, sockets[w].listeners) :
             w \in {v \in Listening : sockets[v].auth = Num(a)}, live \in LiveAnswers}
    \cup {graceExpire(Reg, id, sync, ext) :
             id \in PendingTimers(a), sync \in {"promise", "throws"}, ext \in CurrentAnswers}
    \cup {Resumed(id, how) : id \in Awaited(a), how \in Outcomes}
    \cup {closeConnectionByAuth(Reg, a)}

\* tenant a is in its grace period or has a recovery invocation awaited
Busy(a) == reconnectGraceTimers[a] # None \/ reconnectingAccounts[a]

C19_AddAfterFailedRecovery ==
    \A id \in TimerIds :
        timers[id].status = "awaiting" =>
            \A how \in {"rejected", "timeout"} :
                LET t == timers[id].auth
                    R1 == Resumed(id, how)
                IN /\ R1.conn = connectionsByAuth
                   /\ \A w \in {v \in WsIds : sockets[v].state = "unborn"},
                         ext \in CurrentAnswers :
                          LET R2 == addConnection(R1, w, Num(t), ext)
                          IN /\ R2.conn[t] = w
                             /\ R2.ws[w] = [state |-> "open", auth |-> Num(t),
                                            listeners |-> 1, closeCall |-> NotClosed]
                             /\ ~R2.rec[t]
                             /\ R2.grace[t] = None
                             /\ \A j \in DOMAIN R2.tm :
                                   R2.tm[j].auth = t => R2.tm[j].status # "pending"

\* ---- C20 ----

\* the calls that close queues
CloseOps == {[op |-> "remove", r |-> r] : r \in Rids} \cup {[op |-> "closeAll", r |-> ""]}

\* the sequences of up to n such calls
RECURSIVE CloseOpSeqs(_)
CloseOpSeqs(n) ==
    IF n = 0 THEN {<<>>}
    ELSE LET shorter == CloseOpSeqs(n - 1)
         IN shorter \cup {Append(ops, o) : ops \in shorter, o \in CloseOps}

\* the calls made one after the other
RECURSIVE RunCloseOps(_, _)
RunCloseOps(R, ops) ==
    IF ops = <<>> THEN R
    ELSE LET R1 == RunCloseOps(R, SubSeq(ops, 1, Len(ops) - 1))
             o == ops[Len(ops)]
         IN IF o.op = "remove" THEN removeMessageQueue(R1, o.r) ELSE closeAllMessageQueues(R1)

\* the request ids whose queue the calls are to close
Targets(ops) ==
    IF \E i \in DOMAIN ops : ops[i].op = "closeAll"
    THEN Rids
    ELSE {ops[i].r : i \in DOMAIN ops}

\* C20: the registry has called close at most once on any queue, and a queue is
\* closed exactly when it has; and in every reachable state any sequence of
\* removeMessageQueue and closeAllMessageQueues calls, repeats included, raises
\* nothing and ends in the state in which each targeted tracked queue was
\* closed once and left the map, and nothing else changed
C20_QueueCloseIsIdempotent ==
    /\ \A q \in DOMAIN queues :
          queues[q].closeCalls <= 1 /\ (queues[q].open <=> queues[q].closeCalls = 0)
    /\ \A ops \in CloseOpSeqs(CloseSeqLen) :
          LET R1 == RunCloseOps(Reg, ops)
              hit == {messageQueues[r] : r \in {x \in Targets(ops) : messageQueues[x] # None}}
          IN /\ ~R1.threw
             /\ R1.mq = [r \in Rids |-> IF r \in Targets(ops) THEN None ELSE messageQueues[r]]
             /\ Len(R1.qs) = Len(queues)
             /\ \A q \in DOMAIN queues :
                   R1.qs[q] = IF q \in hit THEN queueClose(queues[q]) ELSE queues[q]
             /\ <<R1.conn, R1.grace, R1.rec, R1.tm, R1.ws>> =
                   <<connectionsByAuth, reconnectGraceTimers, reconnectingAccounts,
                     timers, sockets>>

\* two queues were created and closed, each closed once, and the map is empty
C20_Witness ==
    /\ Len(queues) = 2
    /\ \A q \in DOMAIN queues : ~queues[q].open /\ queues[q].closeCalls = 1
    /\ \A r \in Rids : messageQueues[r] = None

\* ---- C21 ----

\* n chunk frames of the request followed by its stream_close frame
RECURSIVE ChunkStream(_, _)
ChunkStream(r, n) ==
    IF n = 0 THEN << [json |-> TRUE, request_id |-> r, event_type |-> "stream_close"] >>
    ELSE << [json |-> TRUE, request_id |-> r, event_type |-> "chunk"] >> \o ChunkStream(r, n - 1)

\* what n dequeue attempts of the consumer obtain, and the queue they leave
RECURSIVE Drain(_, _)
Drain(q, n) ==
    IF n = 0 THEN [queue |-> q, got |-> <<>>]
    ELSE LET d == Drain(q, n - 1)
             x == queueDequeue(d.queue)
         IN [queue |-> x.queue, got |-> Append(d.got, x.got)]

\* the events as the consumer obtains them
RECURSIVE Events(_)
Events(items) ==
    IF items = <<>> THEN <<>>
    ELSE << [kind |-> "event", event |-> Head(items)] >> \o Events(Tail(items))

\* the queue of the request after the stream was routed and the consumer has
\* taken what it held before, the n chunks and the marker
Drained(r, n) ==
    LET q == messageQueues[r]
        R1 == RouteAll(Reg, ChunkStream(r, n))
    IN [reg |-> R1, d |-> Drain(R1.qs[q], Len(queues[q].items) + n + 1)]

\* C21 as stated: after N chunk frames and one stream_close frame the consumer
\* obtains the N chunks in order, then one terminal marker, and the dequeue
\* attempt after that reports the queue closed
C21_ClosedAfterMarker ==
    \A r \in Rids, n \in 0 .. MaxChunks :
        messageQueues[r] # None =>
            /\ Drained(r, n).d.got =
                  Events(queues[messageQueues[r]].items \o Delivered(ChunkStream(r, n)))
            /\ queueDequeue(Drained(r, n).d.queue).got = [kind |-> "closed"]

\* C21: after N chunk frames and one stream_close frame the consumer obtains
\* the N chunks in order, then one terminal marker; the queue is still open and
\* registered, so the dequeue attempt after that yields no event and waits, and
\* it reports the queue closed once removeMessageQueue for the request or
\* closeAllMessageQueues has run
C21_MarkerThenClosedOnRemoval ==
    \A r \in Rids, n \in 0 .. MaxChunks :
        messageQueues[r] # None =>
            LET q == messageQueues[r]
                D == Drained(r, n)
                R2 == [D.reg EXCEPT !.qs[q] = D.d.queue]
            IN /\ D.d.got = Events(queues[q].items \o Delivered(ChunkStream(r, n)))
               /\ D.reg.mq[r] = q
               /\ queueDequeue(D.d.queue).got = [kind |-> "blocks"]
               /\ queueDequeue(removeMessageQueue(R2, r).qs[q]).got = [kind |-> "closed"]
               /\ queueDequeue(closeAllMessageQueues(R2).qs[q]).got = [kind |-> "closed"]

\* a registered, open queue holds two chunks and the end marker
C21_Witness ==
    \E r \in Rids :
        /\ messageQueues[r] # None
        /\ queues[messageQueues[r]].open
        /\ queues[messageQueues[r]].items =
              << [request_id |-> r, event_type |-> "chunk"],
                 [request_id |-> r, event_type |-> "chunk"],
                 [type |-> "STREAM_END"] >>

\* ---- C22 ----

\* C22: in every reachable state closeAllMessageQueues, whichever of the tracked
\* queues throw from close(), raises nothing, calls close() once on every tracked
\* queue, leaves closed every tracked queue whose close() returned, leaves the
\* untracked queues and the rest of the registry as they were, and empties the
\* queue map; on an empty map it changes nothing
C22_CloseAllClosesAndClears ==
    \A failing \in SUBSET Tracked(Reg) :
        LET R1 == closeAllMessageQueuesWith(Reg, failing) IN
        /\ ~R1.threw
        /\ \A r \in Rids : R1.mq[r] = None
        /\ \A q \in DOMAIN queues :
              IF q \in Tracked(Reg)
              THEN /\ R1.qs[q].closeCalls = queues[q].closeCalls + 1
                   /\ q \notin failing => ~R1.qs[q].open
              ELSE R1.qs[q] = queues[q]
        /\ [R1 EXCEPT !.qs = Reg.qs, !.mq = Reg.mq] = Reg
        /\ Tracked(Reg) = {} => R1 = Reg

\* two queues have been closed, each by one call, and the map is empty while a
\* connection is open
C22_Witness ==
    /\ Len(queues) = 2
    /\ \A q \in DOMAIN queues : ~queues[q].open /\ queues[q].closeCalls = 1
    /\ \A r \in Rids : messageQueues[r] = None
    /\ timers = <<>>
    /\ \E w \in WsIds : sockets[w].state = "open"

\* ---- C23 ----

\* the queue map holds the queue
InMap(q) == \E r \in Rids : messageQueues[r] = q

Invalid(raw) ==
    \/ ~raw.json
    \/ raw.request_id = ""
    \/ raw.event_type \notin {"response_headers", "chunk", "error", "stream_close"}

\* C24: in every reachable state the message handlers of a socket, given a
\* frame that is malformed, has no request_id or has an unrecognized event
\* type, raise nothing and leave every queue and the rest of the registry as
\* they were
C24_InvalidFramesDropped ==
    \A raw \in RawFrames :
        Invalid(raw) =>
            \A n \in 1 .. lim.listeners : EmitMessage(Reg, raw, n) = Reg

\* a socket with its message handler attached is open while both request ids
\* have a registered queue and one of them holds two events
C24_Witness ==
    \E w \in WsIds, r \in Rids :
        /\ sockets[w].state = "open" /\ sockets[w].listeners > 0
        /\ \A x \in Rids : messageQueues[x] # None /\ queues[messageQueues[x]].open
        /\ Len(queues[messageQueues[r]].items) = 2

\* ---- C25 ----

\* C25: in every reachable state, no run of addConnection, of the close-event
\* teardown, of the grace timer callback (to its await, and resumed after it,
\* with the recovery callback throwing, rejecting or timing out) or of
\* closeConnectionByAuth raises, whatever the collaborators answer
C25_NoFaultEscapes ==
    \A t \in Tenants :
        \A R1 \in StepsFor(t) : ~R1.threw

\* ---- C26 ----

\* C26: in every reachable state the message handlers of a socket, given any
\* frame, raise nothing, register no queue, create no queue and leave every
\* closed queue as it is; and no step of the registry changes a closed queue
\* or puts it back into the queue map
C26_TrailingFramesIgnored ==
    /\ [](\A raw \in RawFrames, n \in 1 .. lim.listeners :
             LET R1 == EmitMessage(Reg, raw, n) IN
             /\ ~R1.threw
             /\ R1.mq = messageQueues
             /\ Len(R1.qs) = Len(queues)
             /\ \A q \in DOMAIN queues : ~queues[q].open => R1.qs[q] = queues[q])
    /\ [][\A q \in DOMAIN queues :
             ~queues[q].open =>
                 /\ queues'[q] = queues[q]
                 /\ \A r \in Rids : messageQueues'[r] # q]_vars

\* a request's queue was closed and removed while the socket that carries
\* its frames is still open, with two message handlers attached
C26_Witness ==
    \E w \in WsIds :
        /\ sockets[w].state = "open" /\ sockets[w].listeners = 2
        /\ Len(queues) = 1
        /\ ~queues[1].open /\ queues[1].closeCalls = 1
        /\ \A r \in Rids : messageQueues[r] = None

\* ---- C27 ----

\* the tenant has a grace timer entry
GRACE_PERIOD(t) == reconnectGraceTimers[t] # None

\* a connection is registered for the tenant and it has no grace timer entry
CONNECTED(t) == connectionsByAuth[t] # None /\ reconnectGraceTimers[t] = None

\* no connection, no grace timer entry, and the reconnecting flag is clear
LOST_FINALIZED(t) ==
    /\ connectionsByAuth[t] = None
    /\ reconnectGraceTimers[t] = None
    /\ ~reconnectingAccounts[t]

\* C27: a tenant with a grace timer entry has no registered connection, and,
\* when the grace timers and the recovery timeouts fire, it eventually is
\* connected without an entry or has no connection, no entry and a clear
\* reconnecting flag, whether or not the recovery callback ever settles
C27_GracePeriodEnds ==
    \A t \in Tenants :
        /\ [](GRACE_PERIOD(t) => connectionsByAuth[t] = None)
        /\ GRACE_PERIOD(t) ~> (CONNECTED(t) \/ LOST_FINALIZED(t))

\* a grace period ended with the loss finalized by the recovery timeout, the
\* callback's promise still unsettled
C27_Witness ==
    \E id \in TimerIds :
        /\ timers[id].status = "done"
        /\ timers[id].cb = "outstanding"
        /\ LOST_FINALIZED(timers[id].auth)
        /\ \A j \in TimerIds : timers[j].status \notin {"pending", "awaiting"}

\* ---- C28 ----

\* C28: in every reachable state, addConnection with a valid tenant id emits
\* connectionAdded once and nothing else, with the connection stored for the
\* tenant and one more set of handlers attached to it; and one run of the
\* close-event teardown, whatever path it takes, emits connectionRemoved once
\* and nothing else
C28_OneEventPerAddAndClose ==
    /\ \A w \in WsIds, t \in Tenants, ext \in CurrentAnswers :
          (sockets[w].state = "unborn" \/ connectionsByAuth[t] = w) =>
              LET R1 == addConnection(Reg, w, Num(t), ext) IN
              /\ R1.emitted = <<"connectionAdded">>
              /\ R1.conn[t] = w
              /\ R1.ws[w].listeners = sockets[w].listeners + 1
    /\ \A w \in Listening, live \in LiveAnswers :
          removeConnection([Reg EXCEPT !.ws[w].state = "closed", !.ws[w].listeners = 0],
                           w, live).emitted = <<"connectionRemoved">>

\* ---- C29 ----

\* C29: in every reachable state isInGracePeriod() is true exactly when the
\* accessor is supplied, answers a tenant, and that tenant has a grace timer
\* entry (so its connection is gone); no handler run for another tenant, its
\* disconnection included, changes the answer; and without an accessor or
\* with no current tenant the answer is false
C29_GracePeriodOfCurrentTenantOnly ==
    \A ext \in Tenants \cup {NoCurrent} :
        /\ isInGracePeriod(Reg, ext) <=>
              (cfg.getCurrent /\ ext \in Tenants /\ GRACE_PERIOD(ext))
        /\ isInGracePeriod(Reg, ext) => connectionsByAuth[ext] = None
        /\ \A a \in Tenants \ {getCurrentAuthIndex(ext)} :
              \A R1 \in StepsFor(a) :
                  isInGracePeriod(R1, ext) = isInGracePeriod(Reg, ext)
        /\ (~cfg.getCurrent \/ ext = NoCurrent) => ~isInGracePeriod(Reg, ext)

\* the current tenant is connected while another tenant is in its grace
\* period: the answer is false, and it would be true were that tenant current
C29_Witness ==
    \E a, b \in Tenants :
        /\ a # b
        /\ cfg.getCurrent
        /\ connectionsByAuth[a] # None
        /\ GRACE_PERIOD(b)
        /\ ~isInGracePeriod(Reg, a)
        /\ isInGracePeriod(Reg, b)

\* ---- C30 ----

\* C30: in every reachable state, when closeBrowser closes the browser of a
\* connected tenant and the registry handles the disconnect, while the close
\* is in progress or after it, no grace timer that the teardown starts invokes
\* the recovery callback when it expires
C30_IntentionalCloseSkipsRecovery ==
    \A w \in Listening :
        \A b \in DuringClose(sockets[w].auth.val) :
            LET R1 == EmitClose([Reg EXCEPT !.ws[w].state = "closed", !.ws[w].listeners = 0],
                                w, b.page, sockets[w].listeners)
            IN \A id \in (Len(timers) + 1) .. Len(R1.tm) :
                  R1.tm[id].status = "pending" =>
                      \A sync \in {"promise", "throws"}, ext \in CurrentAnswers :
                          graceExpire(R1, id, sync, ext).tm[id].cb = "none"

\* ---- C31 ----

\* C31: in every reachable state, the close event of a socket that is not the
\* one registered for its tenant leaves the tenant's registered connection in
\* the connection map
C31_StaleCloseKeepsNewerConnection ==
    \A w \in Listening, live \in LiveAnswers :
        LET t == sockets[w].auth.val IN
        (connectionsByAuth[t] # None /\ connectionsByAuth[t] # w) =>
            EmitClose([Reg EXCEPT !.ws[w].state = "closed", !.ws[w].listeners = 0],
                      w, live, sockets[w].listeners).conn[t] = getConnectionByAuth(t)

\* ---- C32 ----

\* C32: in every reachable state a tenant with a registered connection has no
\* pending grace timer: every timer that can still fire for the tenant was
\* cancelled when the tenant registered, so no grace expiry starts while the
\* tenant is connected
C32_NoExpiryWhileConnected ==
    \A id \in TimerIds :
        timers[id].status = "pending" => connectionsByAuth[timers[id].auth] = None

\* ---- C33 ----

\* the sockets that closeConnectionByAuth closed and whose close event is
\* still to come
ExplicitlyClosed ==
    {w \in Listening : sockets[w].state = "closing" /\ sockets[w].closeCall = CloseNoArgs}

\* C33: in every reachable state, the close event of a connection that
\* closeConnectionByAuth closed starts no grace timer and leaves the timer
\* map, the queues and the recovery invocations as they were
C33_ExplicitCloseStartsNoGracePeriod ==
    \A w \in ExplicitlyClosed, live \in LiveAnswers :
        LET R1 == EmitClose([Reg EXCEPT !.ws[w].state = "closed", !.ws[w].listeners = 0],
                            w, live, sockets[w].listeners)
        IN /\ Len(R1.tm) = Len(timers)
           /\ R1.grace = reconnectGraceTimers
           /\ R1.mq = messageQueues /\ R1.qs = queues
           /\ R1.rec = reconnectingAccounts

\* ---- C34 ----

\* C34: in every reachable state, addConnection of the socket that is already
\* registered for the tenant leaves it registered, open and not closed, and
\* afterwards a frame on it adds to its queue what one routing of the frame
\* adds, and its close event runs the teardown once
C34_ReaddIsIdempotent ==
    \A w \in WsIds, t \in Tenants, ext \in CurrentAnswers :
        (connectionsByAuth[t] = w /\ sockets[w].state = "open") =>
            LET R1 == addConnection(Reg, w, Num(t), ext)
                n == R1.ws[w].listeners
            IN /\ R1.conn[t] = w
               /\ R1.ws[w].state = "open"
               /\ R1.ws[w].closeCall = NotClosed
               /\ \A r \in Rids :
                     messageQueues[r] # None =>
                         \A raw \in FramesOf(r) :
                             EmitMessage(R1, raw, n).qs[messageQueues[r]].items =
                                 queues[messageQueues[r]].items \o Delivered(<<raw>>)
               /\ \A live \in LiveAnswers :
                     Len(EmitClose([R1 EXCEPT !.ws[w].state = "closed", !.ws[w].listeners = 0],
                                   w, live, n).emitted) <= 1

\* ---- C35 ----

\* C35: in every reachable state every open queue is in the queue map, and it
\* still is after createMessageQueue for any request id, one that already has
\* a queue included
C35_NoOpenQueueUntracked ==
    /\ \A q \in DOMAIN queues : queues[q].open => InMap(q)
    /\ \A r \in Rids :
          LET R1 == createMessageQueue(Reg, r) IN
          \A q \in DOMAIN R1.qs : R1.qs[q].open => \E x \in Rids : R1.mq[x] = q

\* ---- C36 ----

\* the queue registered under the frame's request id, if any
TargetOf(raw) ==
    IF raw.json /\ raw.request_id \in Rids THEN messageQueues[raw.request_id] ELSE None

\* C36: in every reachable state the message handlers of a socket, given any
\* frame, change nothing but the queue registered under the frame's request
\* id, which stays open and keeps what it held: every other queue, the queue
\* map, the connection map, the sockets, the timers and their map and the
\* reconnecting flags are as before, and nothing is emitted or raised
C36_RoutingTouchesOneQueue ==
    \A raw \in RawFrames, n \in 1 .. lim.listeners :
        LET R1 == EmitMessage(Reg, raw, n) IN
        /\ [R1 EXCEPT !.qs = Reg.qs] = Reg
        /\ Len(R1.qs) = Len(queues)
        /\ \A q \in DOMAIN queues :
              IF q = TargetOf(raw)
              THEN /\ R1.qs[q].open = queues[q].open
                   /\ R1.qs[q].closeCalls = queues[q].closeCalls
                   /\ SubSeq(R1.qs[q].items, 1, Len(queues[q].items)) = queues[q].items
              ELSE R1.qs[q] = queues[q]

\* both tenants are connected and both requests have a queue; one queue has
\* received an event and the other has not
C36_Witness ==
    \E r, x \in Rids :
        /\ \A t \in Tenants : connectionsByAuth[t] # None
        /\ messageQueues[r] # None /\ messageQueues[x] # None
        /\ Len(queues[messageQueues[r]].items) = 1
        /\ queues[messageQueues[x]].items = <<>>

\* ---- C37 ----

\* C37: in every reachable state a tenant's reconnecting flag is set exactly
\* when a recovery invocation of one of its grace timers is being awaited;
\* isReconnectingInProgress() is true exactly when some tenant has one; and
\* it is false in a registry without a recovery callback
C37_FlagIffRecoveryAwaited ==
    /\ \A t \in Tenants : reconnectingAccounts[t] <=> Awaited(t) # {}
    /\ isReconnectingInProgress(Reg) <=> (\E t \in Tenants : Awaited(t) # {})
    /\ ~cfg.callback => ~isReconnectingInProgress(Reg)

\* a recovery invocation was timed out and its promise is still unsettled:
\* the flag is clear and the tenant has registered again
C37_Witness ==
    \E id \in TimerIds :
        /\ cfg.callback
        /\ timers[id].status = "done"
        /\ timers[id].cb = "outstanding"
        /\ connectionsByAuth[timers[id].auth] # None
        /\ ~isReconnectingInProgress(Reg)

\* ---- C38 ----

\* the recovery invocations that were timed out and have not settled
TimedOut == {id \in TimerIds : timers[id].status = "done" /\ timers[id].cb = "outstanding"}

\* C38: in every reachable state, the settlement of a recovery invocation
\* that was timed out leaves the reconnecting flags, the timer entries, the
\* timers' progress, the connections and the queues as they were, emits
\* nothing and raises nothing
C38_LateSettlementChangesNothing ==
    \A id \in TimedOut :
        LET R1 == lateSettle(Reg, id) IN
        /\ [R1 EXCEPT !.tm[id].cb = "outstanding"] = Reg
        /\ R1.rec = reconnectingAccounts
        /\ R1.grace = reconnectGraceTimers
        /\ R1.emitted = <<>>

\* a timed-out invocation is unsettled while a newer recovery for the same
\* tenant is awaited, its flag set and its timer the tenant's entry
C38_Witness ==
    \E i \in TimedOut, j \in TimerIds :
        /\ timers[j].auth = timers[i].auth
        /\ timers[j].status = "awaiting"
        /\ reconnectingAccounts[timers[j].auth]
        /\ reconnectGraceTimers[timers[j].auth] = j

\* ---- C39 ----

\* C39: in every reachable state, the index is -1 when the last call of
\* launchOrSwitchContext has thrown and no call is running, and an index >= 0
\* is that of an account whose context has completed its initialization
C39_FailedLaunchLeavesNoIndex ==
    /\ (launch.pc = "idle" /\ launch.result = "threw") =>
           manager.currentAuthIndex = NoCurrent
    /\ manager.currentAuthIndex >= 0 => manager.currentAuthIndex \in launch.inited

====
